---- MODULE Spec2Model ----
(***************************************************************************)
(* The JSON-file user store of the user API (package storage, JSONStore)   *)
(* and the goroutines that call it.  One JSONStore instance guards a map   *)
(* id -> User with a sync.RWMutex and rewrites the whole snapshot file on  *)
(* every mutation.                                                         *)
(***************************************************************************)
EXTENDS Integers, Sequences, FiniteSets, TLC

VARIABLES
    state,   \* lifecycle of the store: "Uninitialized", "Ready", "Failed"
    file,    \* the snapshot file at filePath
    users,   \* JSONStore.users: the in-memory index, a map id -> User
    mu,      \* JSONStore.mu: [writer, waiting, readers] of the RWMutex
    pc,      \* per goroutine: position inside the store call
    call,    \* per goroutine: the operation in progress and its arguments
    ret,     \* per goroutine: the value the call returns
    snap,    \* the index as the writer in the critical section found it
    trail,   \* per id: how the last Create or Delete of that id ended, until
             \* the next successful Update of the id
    ncalls,  \* number of store operations invoked so far
    req,     \* per goroutine: the HTTP request its handler is serving
    userCounter,  \* UserHandler.userCounter: the value of user_api_users_total
    born,    \* per id a POST handler has made: the CreatedAt it gave the record
    otel     \* initOtel: the shutdown functions collected, and the run of the
             \* combined shutdown function it returns

storeVars == <<state, file, users, mu, pc, call, ret, snap, ncalls>>

vars ==
    <<state, file, users, mu, pc, call, ret, snap, trail, ncalls, req, userCounter, born,
      otel>>

-----------------------------------------------------------------------------
(* Bounds of the model *)

MaxCalls == 3
MaxFileLen == 2

Procs == {"g1", "g2", "g3"}

\* the goroutines that call the store where two callers are enough
Pair == {"g1", "g2"}

Ids == {"u1", "u2"}
Emails == {"a@x.com", "A@x.com"}

-----------------------------------------------------------------------------
(* models.User, and its JSON object in the snapshot file *)

\* a models.User is a record [ID, Name, Email, CreatedAt, UpdatedAt]; its JSON
\* object has the keys id, name, email, created_at, updated_at

Marshal(u) ==
    [id |-> u.ID, name |-> u.Name, email |-> u.Email,
     created_at |-> u.CreatedAt, updated_at |-> u.UpdatedAt]

Unmarshal(j) ==
    [ID |-> j.id, Name |-> j.name, Email |-> j.email,
     CreatedAt |-> j.created_at, UpdatedAt |-> j.updated_at]

\* storage errors, and the error os.WriteFile / os.ReadFile / os.MkdirAll return
ErrUserNotFound == "ErrUserNotFound"
ErrUserExists == "ErrUserExists"
ErrIO == "ErrIO"
ErrNotExist == "ErrNotExist"
ErrSyntax == "ErrSyntax"
Nil == "nil"

-----------------------------------------------------------------------------
(* The map JSONStore.users *)

EmptyMap == << >>

MapSet(us, id, u) == [k \in (DOMAIN us) \cup {id} |-> IF k = id THEN u ELSE us[k]]

MapDelete(us, id) == [k \in (DOMAIN us) \ {id} |-> us[k]]

Values(us) == {us[k] : k \in DOMAIN us}

\* every order in which a range over the map can visit its entries
\* a copy loop that leaves the first record it ranges over out
RangeOrdersShort(us) ==
    LET n == Cardinality(DOMAIN us)
    IN  {[i \in 1..(n - 1) |-> us[ks[i]]] :
            ks \in {f \in [1..n -> DOMAIN us] : \A i, j \in 1..n : f[i] = f[j] => i = j}}

RangeOrders(us) ==
    LET n == Cardinality(DOMAIN us)
    IN  {[i \in 1..n |-> us[ks[i]]] :
            ks \in {f \in [1..n -> DOMAIN us] : \A i, j \in 1..n : f[i] = f[j] => i = j}}

-----------------------------------------------------------------------------
(* The snapshot file *)

Absent == [kind |-> "absent", users |-> << >>]
ZeroBytes == [kind |-> "zero", users |-> << >>]
Malformed == [kind |-> "malformed", users |-> << >>]
JSONArray(js) == [kind |-> "array", users |-> js]

\* NewJSONStore's make(map[string]models.User): the index before load
NewIndex == EmptyMap

\* a load whose loop keeps the first entry of an id instead of the last
RECURSIVE LoadIndexFirstWins(_)
LoadIndexFirstWins(js) ==
    IF js = << >> THEN EmptyMap
    ELSE LET u == Unmarshal(js[1])
         IN  MapSet(LoadIndexFirstWins(SubSeq(js, 2, Len(js))), u.ID, u)

\* load, the loop of lines 513-516: later entries overwrite earlier ones
RECURSIVE LoadIndex(_)
LoadIndex(js) ==
    IF js = << >> THEN EmptyMap
    ELSE LET n == Len(js)
             u == Unmarshal(js[n])
         IN  MapSet(LoadIndex(SubSeq(js, 1, n - 1)), u.ID, u)

\* load: [err, users] for the file f read with outcome io; idx is s.users before
\* a load without the `len(data) == 0` test: zero bytes go to the parser
loadNoEmptyTest(f, io, idx) ==
    IF io = "read_err" THEN [err |-> ErrIO, users |-> idx]
    ELSE IF f.kind = "absent" THEN [err |-> ErrNotExist, users |-> idx]
    ELSE IF f.kind \in {"zero", "malformed"} THEN [err |-> ErrSyntax, users |-> idx]
    ELSE [err |-> Nil, users |-> LoadIndex(f.users)]

\* a load that drops the error of json.Unmarshal
loadDropsSyntaxError(f, io, idx) ==
    IF io = "read_err" THEN [err |-> ErrIO, users |-> idx]
    ELSE IF f.kind = "absent" THEN [err |-> ErrNotExist, users |-> idx]
    ELSE IF f.kind \in {"zero", "malformed"} THEN [err |-> Nil, users |-> idx]
    ELSE [err |-> Nil, users |-> LoadIndex(f.users)]

load(f, io, idx) ==
    IF io = "read_err" THEN [err |-> ErrIO, users |-> idx]
    ELSE IF f.kind = "absent" THEN [err |-> ErrNotExist, users |-> idx]
    ELSE IF f.kind = "zero" THEN [err |-> Nil, users |-> idx]
    ELSE IF f.kind = "malformed" THEN [err |-> ErrSyntax, users |-> idx]
    ELSE [err |-> Nil, users |-> LoadIndex(f.users)]

\* a save that marshals the map as it was before the mutation
SaveContentsStale(us) ==
    {JSONArray([i \in 1..Len(s) |-> Marshal(s[i])]) : s \in RangeOrders(snap)}

\* save, lines 523-528: the array save marshals, one per order of the range
SaveContents(us) == {JSONArray([i \in 1..Len(s) |-> Marshal(s[i])]) : s \in RangeOrders(us)}

\* os.WriteFile, line 533: what the file can hold afterwards, per outcome
WriteFile(f, data, io) ==
    CASE io = "ok" -> data
      [] io = "open_err" -> f
      [] io = "write_err" -> ZeroBytes
      [] io = "short_write" -> Malformed

WriteOutcomes == {"ok", "open_err", "write_err", "short_write"}

-----------------------------------------------------------------------------
(* The checks of Create and Update *)

\* a scan that compares the ids instead of the emails
EmailExistsById(us, user) == \E k \in DOMAIN us : us[k].ID = user.ID

\* a scan with the id test inverted: it looks at the record's own entry only
EmailUsedBySelf(us, user) ==
    \E k \in DOMAIN us : us[k].Email = user.Email /\ k = user.ID

\* Create, lines 568-572: some user in the map has this email
\* an email comparison that ignores the case of the letters
Fold(e) == IF e = "A@x.com" THEN "a@x.com" ELSE e
EmailExistsFolded(us, user) == \E k \in DOMAIN us : Fold(us[k].Email) = Fold(user.Email)

\* an Update without the scan
EmailUnchecked(us, user) == FALSE

\* an Update scan without the `id != user.ID` exemption
EmailUsedByAny(us, user) == \E k \in DOMAIN us : us[k].Email = user.Email

EmailExists(us, user) == \E k \in DOMAIN us : us[k].Email = user.Email

\* Update, lines 588-592: some other user in the map has this email
EmailUsedByOther(us, user) ==
    \E k \in DOMAIN us : us[k].Email = user.Email /\ k # user.ID

\* Create line 574
Insert(us, user) == MapSet(us, user.ID, user)

\* an Update that keeps the stored CreatedAt instead of the caller's
ReplaceKeepCreatedAt(us, user) ==
    MapSet(us, user.ID, [user EXCEPT !.CreatedAt = us[user.ID].CreatedAt])

\* Update line 594
\* an Update that writes the new name and keeps the email it found
ReplaceNameOnly(us, user) ==
    MapSet(us, user.ID, [user EXCEPT !.Email = us[user.ID].Email])

Replace(us, user) == MapSet(us, user.ID, user)

\* Delete line 607
\* a Delete that drops every record with the email of the one it was asked for
RemoveSameEmail(us, id) ==
    [k \in {j \in DOMAIN us : us[j].Email # us[id].Email} |-> us[k]]

Remove(us, id) == MapDelete(us, id)

-----------------------------------------------------------------------------
(* Calls *)

\* the users the callers pass to Create and Update
Payloads == {<<"ann", 1, 1>>, <<"bob", 2, 2>>}

InputUsers ==
    {[ID |-> i, Name |-> v[1], Email |-> e, CreatedAt |-> v[2], UpdatedAt |-> v[3]] :
        i \in Ids, e \in Emails, v \in Payloads}

NoRet == [err |-> Nil, val |-> << >>]
NoCall == [op |-> "none", id |-> "", user |-> << >>]

WriteOps == {"Create", "Update", "Delete"}
ReadOps == {"GetAll", "GetByID"}

Ops == WriteOps \cup ReadOps

Pending(o) == [op |-> o, id |-> "", user |-> << >>]

\* the snapshot files a store may find at construction
SeedUsers ==
    {[ID |-> "u1", Name |-> "ann", Email |-> "a@x.com", CreatedAt |-> 1, UpdatedAt |-> 1],
     [ID |-> "u2", Name |-> "ann", Email |-> "a@x.com", CreatedAt |-> 1, UpdatedAt |-> 1],
     [ID |-> "u1", Name |-> "bob", Email |-> "A@x.com", CreatedAt |-> 2, UpdatedAt |-> 2]}

RECURSIVE SeqsUpTo(_, _)
SeqsUpTo(S, n) ==
    IF n = 0 THEN {<< >>}
    ELSE LET shorter == SeqsUpTo(S, n - 1)
         IN  shorter \cup {Append(s, x) : s \in {t \in shorter : Len(t) = n - 1}, x \in S}

InitFiles ==
    {Absent, ZeroBytes, Malformed}
    \cup {JSONArray(js) : js \in SeqsUpTo({Marshal(u) : u \in SeedUsers}, MaxFileLen)}

\* initOtel has not set up a provider yet
NoOtel == [phase |-> "init", funcs |-> << >>, outs |-> << >>, err |-> Nil, result |-> Nil]

\* no request: the goroutine is not inside a handler
NoReq ==
    [route |-> "none", id |-> "", body |-> << >>, existing |-> << >>,
     err |-> Nil, status |-> ""]

Idle == \A p \in Procs : pc[p] = "idle"

Init ==
    /\ state = "Uninitialized"
    /\ file \in InitFiles
    /\ users = EmptyMap
    /\ mu = [writer |-> {}, waiting |-> {}, readers |-> {}]
    /\ pc = [p \in Procs |-> "idle"]
    /\ call = [p \in Procs |-> NoCall]
    /\ ret = [p \in Procs |-> NoRet]
    /\ snap = EmptyMap
    /\ trail = EmptyMap
    /\ req = [p \in Procs |-> NoReq]
    /\ userCounter = 0
    /\ born = EmptyMap
    /\ otel = NoOtel
    /\ ncalls = 0

-----------------------------------------------------------------------------
(* NewJSONStore: builds an instance on the file; a later call builds a      *)
(* fresh instance once the goroutines of the previous one are done.         *)

NewJSONStore(env) ==
    /\ state \in {"Uninitialized", "Ready"}
    /\ Idle
    /\ IF env = "mkdir_err"
       THEN /\ state' = "Failed"
            /\ users' = EmptyMap
       ELSE LET r == load(file, env, NewIndex)
            IN  IF r.err # Nil /\ r.err # ErrNotExist
                THEN /\ state' = "Failed"
                     /\ users' = EmptyMap
                ELSE /\ state' = "Ready"
                     /\ users' = r.users
    /\ UNCHANGED <<file, mu, pc, call, ret, snap, ncalls>>

\* a goroutine calls a store operation; the operation reads its arguments
\* first inside its critical section, where the model draws them
Invoke(p, o) ==
    /\ state = "Ready"
    /\ pc[p] = "idle"
    /\ ncalls < MaxCalls
    /\ ncalls' = ncalls + 1
    /\ pc' = [pc EXCEPT ![p] = "lock"]
    /\ call' = [call EXCEPT ![p] = Pending(o)]
    /\ ret' = [ret EXCEPT ![p] = NoRet]
    /\ UNCHANGED <<state, file, users, mu, snap>>

\* sync.RWMutex: Lock returns at once when no writer holds or waits for the
\* lock and no reader holds it
CanLock == mu.writer = {} /\ mu.waiting = {} /\ mu.readers = {}

\* Lock with readers inside: the writer is announced and waits for them
MustWait == mu.writer = {} /\ mu.waiting = {} /\ mu.readers # {}

\* a read lock that is a plain mutex: one holder at a time
CanRLockAlone == mu.writer = {} /\ mu.waiting = {} /\ mu.readers = {}

\* a read lock that does not look at the writer
CanRLockAlways == TRUE

\* RLock returns at once unless a writer holds the lock or waits for it
CanRLock == mu.writer = {} /\ mu.waiting = {}

\* goroutine p's Lock returns: at once, or once the readers it waited for left
Locks(p) ==
    \/ pc[p] = "lock" /\ CanLock
    \/ pc[p] = "drain" /\ mu.waiting = {p} /\ mu.readers = {}

\* s.mu.Lock() of a mutating operation while readers hold the lock
LockWait(p) ==
    /\ pc[p] = "lock" /\ call[p].op \in WriteOps
    /\ MustWait
    /\ mu' = [mu EXCEPT !.waiting = {p}]
    /\ pc' = [pc EXCEPT ![p] = "drain"]
    /\ UNCHANGED <<state, file, users, call, ret, snap, ncalls>>

\* the test `_, exists := s.users[id]` of Update and Delete that finds nothing
ExistsAlways(us, id) == TRUE

\* Update line 583, Delete line 603
Exists(us, id) == id \in DOMAIN us

\* a save that drops the error of os.WriteFile
SaveErrSwallowed(io) == Nil

\* a save that calls os.WriteFile again after a failure
AfterSaveRetry(io) == IF io = "ok" THEN "unlock" ELSE "save"

\* save returns after its one call of os.WriteFile, whatever the outcome
AfterSave(io) == "unlock"

\* save line 533: the error os.WriteFile returns
SaveErr(io) == IF io = "ok" THEN Nil ELSE ErrIO

\* Create up to the call of save: Lock, the email scan, the insert
Create(p, user) ==
    /\ call[p].op = "Create"
    /\ Locks(p)
    /\ mu' = [mu EXCEPT !.writer = {p}, !.waiting = {}]
    /\ snap' = users
    /\ call' = [call EXCEPT ![p] = [op |-> "Create", id |-> user.ID, user |-> <<user>>]]
    /\ IF EmailExists(users, user)
           THEN /\ ret' = [ret EXCEPT ![p] = [err |-> ErrUserExists, val |-> << >>]]
                /\ pc' = [pc EXCEPT ![p] = "unlock"]
                /\ users' = users
           ELSE /\ users' = Insert(users, user)
                /\ pc' = [pc EXCEPT ![p] = "save"]
                /\ ret' = ret
    /\ UNCHANGED <<state, file, ncalls>>

\* an Update that scans the emails before it looks for the id
UpdateScansFirst(p, user) ==
    /\ call[p].op = "Update"
    /\ Locks(p)
    /\ mu' = [mu EXCEPT !.writer = {p}, !.waiting = {}]
    /\ snap' = users
    /\ call' = [call EXCEPT ![p] = [op |-> "Update", id |-> user.ID, user |-> <<user>>]]
    /\ IF EmailUsedByOther(users, user)
           THEN /\ ret' = [ret EXCEPT ![p] = [err |-> ErrUserExists, val |-> << >>]]
                /\ pc' = [pc EXCEPT ![p] = "unlock"]
                /\ users' = users
           ELSE IF ~Exists(users, user.ID)
           THEN /\ ret' = [ret EXCEPT ![p] = [err |-> ErrUserNotFound, val |-> << >>]]
                /\ pc' = [pc EXCEPT ![p] = "unlock"]
                /\ users' = users
           ELSE /\ users' = Replace(users, user)
                /\ pc' = [pc EXCEPT ![p] = "save"]
                /\ ret' = ret
    /\ UNCHANGED <<state, file, ncalls>>

\* Update up to the call of save
Update(p, user) ==
    /\ call[p].op = "Update"
    /\ Locks(p)
    /\ mu' = [mu EXCEPT !.writer = {p}, !.waiting = {}]
    /\ snap' = users
    /\ call' = [call EXCEPT ![p] = [op |-> "Update", id |-> user.ID, user |-> <<user>>]]
    /\ IF ~Exists(users, user.ID)
           THEN /\ ret' = [ret EXCEPT ![p] = [err |-> ErrUserNotFound, val |-> << >>]]
                /\ pc' = [pc EXCEPT ![p] = "unlock"]
                /\ users' = users
           ELSE IF EmailUsedByOther(users, user)
           THEN /\ ret' = [ret EXCEPT ![p] = [err |-> ErrUserExists, val |-> << >>]]
                /\ pc' = [pc EXCEPT ![p] = "unlock"]
                /\ users' = users
           ELSE /\ users' = Replace(users, user)
                /\ pc' = [pc EXCEPT ![p] = "save"]
                /\ ret' = ret
    /\ UNCHANGED <<state, file, ncalls>>

\* Delete up to the call of save
Delete(p, id) ==
    /\ call[p].op = "Delete"
    /\ Locks(p)
    /\ mu' = [mu EXCEPT !.writer = {p}, !.waiting = {}]
    /\ snap' = users
    /\ call' = [call EXCEPT ![p] = [op |-> "Delete", id |-> id, user |-> << >>]]
    /\ IF ~Exists(users, id)
       THEN /\ ret' = [ret EXCEPT ![p] = [err |-> ErrUserNotFound, val |-> << >>]]
            /\ pc' = [pc EXCEPT ![p] = "unlock"]
            /\ users' = users
       ELSE /\ users' = Remove(users, id)
            /\ pc' = [pc EXCEPT ![p] = "save"]
            /\ ret' = ret
    /\ UNCHANGED <<state, file, ncalls>>

\* save: marshal the map and write the file; its error is the call's result
save(p, io) ==
    /\ pc[p] = "save"
    /\ \E data \in SaveContents(users) : file' = WriteFile(file, data, io)
    /\ ret' = [ret EXCEPT ![p] = [err |-> SaveErr(io), val |-> << >>]]
    /\ pc' = [pc EXCEPT ![p] = AfterSave(io)]
    /\ UNCHANGED <<state, users, mu, call, snap, ncalls>>

\* a return that leaves the write lock held
UnlockKeepsLock(p) ==
    /\ pc[p] = "unlock"
    /\ mu' = mu
    /\ pc' = [pc EXCEPT ![p] = "idle"]
    /\ call' = [call EXCEPT ![p] = NoCall]
    /\ ret' = [ret EXCEPT ![p] = NoRet]
    /\ snap' = EmptyMap
    /\ UNCHANGED <<state, file, users, ncalls>>

\* the deferred s.mu.Unlock(), and the return to the caller
Unlock(p) ==
    /\ pc[p] = "unlock"
    /\ mu' = [mu EXCEPT !.writer = {}]
    /\ pc' = [pc EXCEPT ![p] = "idle"]
    /\ call' = [call EXCEPT ![p] = NoCall]
    /\ ret' = [ret EXCEPT ![p] = NoRet]
    /\ snap' = EmptyMap
    /\ UNCHANGED <<state, file, users, ncalls>>

\* a GetAll that also saves the index
GetAllSaving(p) ==
    /\ pc[p] = "lock" /\ call[p].op = "GetAll"
    /\ CanRLock
    /\ mu' = [mu EXCEPT !.readers = @ \cup {p}]
    /\ \E s \in RangeOrders(users) : ret' = [ret EXCEPT ![p] = [err |-> Nil, val |-> s]]
    /\ \E data \in SaveContents(users) : file' = data
    /\ pc' = [pc EXCEPT ![p] = "runlock"]
    /\ UNCHANGED <<state, users, call, snap, ncalls>>

\* GetAll: RLock and the copy of the map into a slice
GetAll(p) ==
    /\ pc[p] = "lock" /\ call[p].op = "GetAll"
    /\ CanRLock
    /\ mu' = [mu EXCEPT !.readers = @ \cup {p}]
    /\ \E s \in RangeOrders(users) : ret' = [ret EXCEPT ![p] = [err |-> Nil, val |-> s]]
    /\ pc' = [pc EXCEPT ![p] = "runlock"]
    /\ UNCHANGED <<state, file, users, call, snap, ncalls>>

\* GetByID: RLock and the lookup
GetByID(p, id) ==
    /\ pc[p] = "lock" /\ call[p].op = "GetByID"
    /\ CanRLock
    /\ mu' = [mu EXCEPT !.readers = @ \cup {p}]
    /\ call' = [call EXCEPT ![p] = [op |-> "GetByID", id |-> id, user |-> << >>]]
    /\ ret' = [ret EXCEPT ![p] =
                 IF id \in DOMAIN users
                 THEN [err |-> Nil, val |-> <<users[id]>>]
                 ELSE [err |-> ErrUserNotFound, val |-> << >>]]
    /\ pc' = [pc EXCEPT ![p] = "runlock"]
    /\ UNCHANGED <<state, file, users, snap, ncalls>>

\* the deferred s.mu.RUnlock(), and the return to the caller
RUnlock(p) ==
    /\ pc[p] = "runlock"
    /\ mu' = [mu EXCEPT !.readers = @ \ {p}]
    /\ pc' = [pc EXCEPT ![p] = "idle"]
    /\ call' = [call EXCEPT ![p] = NoCall]
    /\ ret' = [ret EXCEPT ![p] = NoRet]
    /\ UNCHANGED <<state, file, users, snap, ncalls>>

Envs == {"ok", "mkdir_err", "read_err"}

Next ==
    \/ \E env \in Envs : NewJSONStore(env) /\ UNCHANGED <<otel, trail, req, userCounter, born>>
    \/ \E p \in Pair, o \in Ops : Invoke(p, o) /\ UNCHANGED <<otel, trail, req, userCounter, born>>
    \/ \E p \in Procs : LockWait(p) /\ UNCHANGED <<otel, trail, req, userCounter, born>>
    \/ \E p \in Procs, user \in InputUsers : Create(p, user) /\ UNCHANGED <<otel, trail, req, userCounter, born>>
    \/ \E p \in Procs, user \in InputUsers : Update(p, user) /\ UNCHANGED <<otel, trail, req, userCounter, born>>
    \/ \E p \in Procs, id \in Ids : Delete(p, id) /\ UNCHANGED <<otel, trail, req, userCounter, born>>
    \/ \E p \in Procs, io \in WriteOutcomes : save(p, io) /\ UNCHANGED <<otel, trail, req, userCounter, born>>
    \/ \E p \in Procs : Unlock(p) /\ UNCHANGED <<otel, trail, req, userCounter, born>>
    \/ \E p \in Procs : GetAll(p) /\ UNCHANGED <<otel, trail, req, userCounter, born>>
    \/ \E p \in Procs, id \in Ids : GetByID(p, id) /\ UNCHANGED <<otel, trail, req, userCounter, born>>
    \/ \E p \in Procs : RUnlock(p) /\ UNCHANGED <<otel, trail, req, userCounter, born>>

Spec == Init /\ [][Next]_vars

-----------------------------------------------------------------------------
(* The same program with the trail of its Creates and Deletes kept *)

\* the trail after call c ended with err: a Create that got past the email scan
\* is noted with its result, a successful Delete is noted, a successful Update
\* forgets the id
Record(t, c, err) ==
    CASE c.op = "Create" -> MapSet(t, c.id, [op |-> "Create", user |-> c.user, err |-> err])
      [] c.op = "Delete" /\ err = Nil ->
            MapSet(t, c.id, [op |-> "Delete", user |-> << >>, err |-> Nil])
      [] c.op = "Update" /\ err = Nil -> MapDelete(t, c.id)
      [] OTHER -> t

Noted(p) == trail' = Record(trail, call[p], ret'[p].err)

NextNoted ==
    \/ \E env \in Envs : NewJSONStore(env) /\ trail' = EmptyMap /\ UNCHANGED <<otel, req, userCounter, born>>
    \/ \E p \in Pair, o \in Ops : Invoke(p, o) /\ UNCHANGED <<otel, trail, req, userCounter, born>>
    \/ \E p \in Procs : LockWait(p) /\ UNCHANGED <<otel, trail, req, userCounter, born>>
    \/ \E p \in Procs, user \in InputUsers : Create(p, user) /\ UNCHANGED <<otel, trail, req, userCounter, born>>
    \/ \E p \in Procs, user \in InputUsers : Update(p, user) /\ UNCHANGED <<otel, trail, req, userCounter, born>>
    \/ \E p \in Procs, id \in Ids : Delete(p, id) /\ UNCHANGED <<otel, trail, req, userCounter, born>>
    \/ \E p \in Procs, io \in WriteOutcomes : save(p, io) /\ Noted(p) /\ UNCHANGED <<otel, req, userCounter, born>>
    \/ \E p \in Procs : Unlock(p) /\ UNCHANGED <<otel, trail, req, userCounter, born>>
    \/ \E p \in Procs : GetAll(p) /\ UNCHANGED <<otel, trail, req, userCounter, born>>
    \/ \E p \in Procs, id \in Ids : GetByID(p, id) /\ UNCHANGED <<otel, trail, req, userCounter, born>>
    \/ \E p \in Procs : RUnlock(p) /\ UNCHANGED <<otel, trail, req, userCounter, born>>

SpecNoted == Init /\ [][NextNoted]_vars

-----------------------------------------------------------------------------
(* Concurrent POST-style Creates alone: every Create carries an id the store *)
(* has not seen, as the ids the handler draws from uuid.New()               *)

FreshID(id) == id \notin DOMAIN users /\ id \notin DOMAIN trail

NextCreates ==
    \/ \E env \in Envs : state = "Uninitialized" /\ NewJSONStore(env) /\ trail' = EmptyMap /\ UNCHANGED <<otel, req, userCounter, born>>
    \/ \E p \in Pair : Invoke(p, "Create") /\ UNCHANGED <<otel, trail, req, userCounter, born>>
    \/ \E p \in Procs, user \in InputUsers :
            FreshID(user.ID) /\ Create(p, user) /\ UNCHANGED <<otel, trail, req, userCounter, born>>
    \/ \E p \in Procs, io \in WriteOutcomes : save(p, io) /\ Noted(p) /\ UNCHANGED <<otel, req, userCounter, born>>
    \/ \E p \in Procs : Unlock(p) /\ UNCHANGED <<otel, trail, req, userCounter, born>>

SpecCreates == Init /\ [][NextCreates]_vars

-----------------------------------------------------------------------------
(* Properties *)

\* Three goroutines call one store instance: with a reader inside and a writer
\* waiting there is a third caller left to arrive at the lock.
\* The locking does not depend on the records: the store is opened once, on no
\* file or on a file of one record, and the callers send one name.
LockFiles == {f \in InitFiles : f.kind = "absent" \/ (f.kind = "array" /\ Len(f.users) = 1)}
LockUsers == {u \in InputUsers : u.Name = "ann"}

NextLocks ==
    \/ state = "Uninitialized" /\ file \in LockFiles /\ NewJSONStore("ok") /\ UNCHANGED <<otel, trail, req, userCounter, born>>
    \/ \E p \in Procs, o \in Ops : Invoke(p, o) /\ UNCHANGED <<otel, trail, req, userCounter, born>>
    \/ \E p \in Procs : LockWait(p) /\ UNCHANGED <<otel, trail, req, userCounter, born>>
    \/ \E p \in Procs, user \in LockUsers : Create(p, user) /\ UNCHANGED <<otel, trail, req, userCounter, born>>
    \/ \E p \in Procs, user \in LockUsers : Update(p, user) /\ UNCHANGED <<otel, trail, req, userCounter, born>>
    \/ \E p \in Procs, id \in Ids : Delete(p, id) /\ UNCHANGED <<otel, trail, req, userCounter, born>>
    \/ \E p \in Procs, io \in WriteOutcomes : save(p, io) /\ UNCHANGED <<otel, trail, req, userCounter, born>>
    \/ \E p \in Procs : Unlock(p) /\ UNCHANGED <<otel, trail, req, userCounter, born>>
    \/ \E p \in Procs : GetAll(p) /\ UNCHANGED <<otel, trail, req, userCounter, born>>
    \/ \E p \in Procs, id \in Ids : GetByID(p, id) /\ UNCHANGED <<otel, trail, req, userCounter, born>>
    \/ \E p \in Procs : RUnlock(p) /\ UNCHANGED <<otel, trail, req, userCounter, born>>

SpecLocks == Init /\ [][NextLocks]_vars

-----------------------------------------------------------------------------
(* The HTTP handlers of UserHandler on top of the store *)

StatusOK == "200"
StatusCreated == "201"
StatusNoContent == "204"
StatusBadRequest == "400"
StatusNotFound == "404"
StatusConflict == "409"
StatusInternalServerError == "500"

Routes == {"GetAll", "GetByID", "Create", "Update", "Delete"}

\* the bodies ShouldBindJSON accepts, and the readings of time.Now()
Bodies == {[Name |-> "ann", Email |-> e] : e \in Emails}
Clock == {1, 2}

\* the handlers tell a write that worked from one that did not, nothing more
HandlerOutcomes == {"ok", "write_err"}

\* the store operation a handler calls first
FirstCall(route) == IF route = "Update" THEN "GetByID" ELSE route

Sent(r, err, status) == [r EXCEPT !.err = err, !.status = status]

\* UserHandler.GetAll after h.store.GetAll()
AnswerGetAll(r, res) ==
    IF res.err # Nil THEN Sent(r, res.err, StatusInternalServerError)
    ELSE Sent(r, Nil, StatusOK)

\* UserHandler.GetByID after h.store.GetByID(id)
AnswerGetByID(r, res) ==
    IF res.err = ErrUserNotFound THEN Sent(r, res.err, StatusNotFound)
    ELSE IF res.err # Nil THEN Sent(r, res.err, StatusInternalServerError)
    ELSE Sent(r, Nil, StatusOK)

\* UserHandler.Create after h.store.Create(user)
AnswerCreate(r, res) ==
    IF res.err = ErrUserExists THEN Sent(r, res.err, StatusConflict)
    ELSE IF res.err # Nil THEN Sent(r, res.err, StatusInternalServerError)
    ELSE Sent(r, Nil, StatusCreated)

\* UserHandler.Update after h.store.GetByID(id): the record found is kept for
\* its CreatedAt and the handler goes on
AnswerUpdateFetch(r, res) ==
    IF res.err = ErrUserNotFound THEN Sent(r, res.err, StatusNotFound)
    ELSE IF res.err # Nil THEN Sent(r, res.err, StatusInternalServerError)
    ELSE [r EXCEPT !.existing = res.val]

\* UserHandler.Update after h.store.Update(user): only ErrUserExists is told
\* apart from the other errors
AnswerUpdate(r, res) ==
    IF res.err = ErrUserExists THEN Sent(r, res.err, StatusConflict)
    ELSE IF res.err # Nil THEN Sent(r, res.err, StatusInternalServerError)
    ELSE Sent(r, Nil, StatusOK)

\* UserHandler.Delete after h.store.Delete(id)
AnswerDelete(r, res) ==
    IF res.err = ErrUserNotFound THEN Sent(r, res.err, StatusNotFound)
    ELSE IF res.err # Nil THEN Sent(r, res.err, StatusInternalServerError)
    ELSE Sent(r, Nil, StatusNoContent)

\* the handler of request r after store call c returned res
Answer(r, c, res) ==
    CASE r.route = "GetAll" -> AnswerGetAll(r, res)
      [] r.route = "GetByID" -> AnswerGetByID(r, res)
      [] r.route = "Create" -> AnswerCreate(r, res)
      [] r.route = "Delete" -> AnswerDelete(r, res)
      [] r.route = "Update" /\ c.op = "GetByID" -> AnswerUpdateFetch(r, res)
      [] r.route = "Update" /\ c.op = "Update" -> AnswerUpdate(r, res)

\* the record UserHandler.Create builds: a new uuid, both times now
NewUser(r, id, now) ==
    [ID |-> id, Name |-> r.body[1].Name, Email |-> r.body[1].Email,
     CreatedAt |-> now, UpdatedAt |-> now]

\* an Update handler that stamps the record anew instead of carrying CreatedAt
UpdatedUserRestamped(r, now) ==
    [ID |-> r.id, Name |-> r.body[1].Name, Email |-> r.body[1].Email,
     CreatedAt |-> now, UpdatedAt |-> now]

\* the record UserHandler.Update builds from the record it fetched
UpdatedUser(r, now) ==
    [ID |-> r.id, Name |-> r.body[1].Name, Email |-> r.body[1].Email,
     CreatedAt |-> r.existing[1].CreatedAt, UpdatedAt |-> now]

\* a request reaches its handler, which goes up to its first store call
Receive(p, route, id, body) ==
    /\ req[p].route = "none"
    /\ Invoke(p, FirstCall(route))
    /\ req' = [req EXCEPT ![p] = [NoReq EXCEPT !.route = route, !.id = id, !.body = body]]

\* POST and PUT with a body ShouldBindJSON rejects
BadRequest(p, route) ==
    /\ state = "Ready"
    /\ pc[p] = "idle" /\ req[p].route = "none"
    /\ route \in {"Create", "Update"}
    /\ req' = [req EXCEPT ![p] = Sent([NoReq EXCEPT !.route = route], Nil, StatusBadRequest)]
    /\ UNCHANGED <<state, file, users, mu, pc, call, ret, snap, ncalls>>

\* UserHandler.Update goes from the fetched record to h.store.Update
CallUpdate(p) ==
    /\ req[p].route = "Update" /\ req[p].existing # << >> /\ req[p].status = ""
    /\ Invoke(p, "Update")
    /\ UNCHANGED req

\* the store call returns into the handler
Returned(p) == req' = [req EXCEPT ![p] = Answer(req[p], call[p], ret[p])]

\* the response is written and the goroutine is free again
Done(p) ==
    /\ req[p].status # ""
    /\ req' = [req EXCEPT ![p] = NoReq]
    /\ UNCHANGED <<state, file, users, mu, pc, call, ret, snap, ncalls>>

\* NewUserHandler: the counter starts at the number of records GetAll returns;
\* the records the store loaded were made by POSTs of an earlier run
NewUserHandler ==
    /\ userCounter' = IF state' = "Ready" THEN Cardinality(DOMAIN users') ELSE userCounter
    /\ born' = [k \in DOMAIN users' |-> users'[k].CreatedAt]

\* what the handler of request r adds to userCounter after store call c
\* returned res: Create line 358, Delete line 446
Counted(r, c, res) ==
    IF r.route = "Create" /\ res.err = Nil THEN 1
    ELSE IF r.route = "Delete" /\ res.err = Nil THEN -1
    ELSE 0

\* the store call returns into the handler, which answers and counts
Back(p) ==
    /\ Returned(p)
    /\ userCounter' = userCounter + Counted(req[p], call[p], ret[p])

NextHTTP ==
    \/ \E env \in Envs :
            /\ state = "Uninitialized" /\ file \in LockFiles
            /\ NewJSONStore(env) /\ NewUserHandler /\ UNCHANGED <<otel, trail, req>>
    \/ \E p \in Pair, route \in {"GetAll"} :
            Receive(p, route, "", << >>) /\ UNCHANGED <<otel, trail, userCounter, born>>
    \/ \E p \in Pair, route \in {"GetByID", "Delete"}, id \in Ids :
            Receive(p, route, id, << >>) /\ UNCHANGED <<otel, trail, userCounter, born>>
    \/ \E p \in Pair, body \in Bodies :
            Receive(p, "Create", "", <<body>>) /\ UNCHANGED <<otel, trail, userCounter, born>>
    \/ \E p \in Pair, id \in Ids, body \in Bodies :
            Receive(p, "Update", id, <<body>>) /\ UNCHANGED <<otel, trail, userCounter, born>>
    \/ \E p \in Pair, route \in Routes :
            BadRequest(p, route) /\ UNCHANGED <<otel, trail, userCounter, born>>
    \/ \E p \in Procs : CallUpdate(p) /\ UNCHANGED <<otel, trail, userCounter, born>>
    \/ \E p \in Procs : LockWait(p) /\ UNCHANGED <<otel, trail, req, userCounter, born>>
    \/ \E p \in Procs, id \in Ids, now \in Clock :
            /\ req[p].route = "Create" /\ id \notin DOMAIN born
            /\ Create(p, NewUser(req[p], id, now))
            /\ born' = MapSet(born, id, now)
            /\ UNCHANGED <<otel, trail, req, userCounter>>
    \/ \E p \in Procs, now \in Clock :
            /\ req[p].route = "Update" /\ req[p].existing # << >>
            /\ Update(p, UpdatedUser(req[p], now))
            /\ UNCHANGED <<otel, trail, req, userCounter, born>>
    \/ \E p \in Procs : Delete(p, req[p].id) /\ UNCHANGED <<otel, trail, req, userCounter, born>>
    \/ \E p \in Procs, io \in HandlerOutcomes :
            save(p, io) /\ UNCHANGED <<otel, trail, req, userCounter, born>>
    \/ \E p \in Procs : Unlock(p) /\ Back(p) /\ UNCHANGED <<otel, trail, born>>
    \/ \E p \in Procs : GetAll(p) /\ UNCHANGED <<otel, trail, req, userCounter, born>>
    \/ \E p \in Procs : GetByID(p, req[p].id) /\ UNCHANGED <<otel, trail, req, userCounter, born>>
    \/ \E p \in Procs : RUnlock(p) /\ Back(p) /\ UNCHANGED <<otel, trail, born>>
    \/ \E p \in Procs : Done(p) /\ UNCHANGED <<otel, trail, userCounter, born>>

SpecHTTP == Init /\ [][NextHTTP]_vars

\* Progress does not depend on the records either: the callers send one
\* record and one id to a store opened on no file, and a write works or fails.
FairUsers == {u \in LockUsers : u.ID = "u1" /\ u.Email = "a@x.com"}
FairIds == {"u1"}

\* the steps of goroutine p inside a store call, from the lock to the return
Step(p) ==
    /\ \/ LockWait(p)
       \/ \E user \in FairUsers : Create(p, user) \/ Update(p, user)
       \/ \E id \in FairIds : Delete(p, id) \/ GetByID(p, id)
       \/ \E io \in HandlerOutcomes : save(p, io)
       \/ GetAll(p)
       \/ Unlock(p)
       \/ RUnlock(p)
    /\ UNCHANGED <<otel, trail, req, userCounter, born>>

NextFair ==
    \/ /\ state = "Uninitialized" /\ file = Absent
       /\ NewJSONStore("ok") /\ UNCHANGED <<otel, trail, req, userCounter, born>>
    \/ \E p \in Procs, o \in Ops : Invoke(p, o) /\ UNCHANGED <<otel, trail, req, userCounter, born>>
    \/ \E p \in Procs : LockWait(p) /\ UNCHANGED <<otel, trail, req, userCounter, born>>
    \/ \E p \in Procs, user \in FairUsers : Create(p, user) /\ UNCHANGED <<otel, trail, req, userCounter, born>>
    \/ \E p \in Procs, user \in FairUsers : Update(p, user) /\ UNCHANGED <<otel, trail, req, userCounter, born>>
    \/ \E p \in Procs, id \in FairIds : Delete(p, id) /\ UNCHANGED <<otel, trail, req, userCounter, born>>
    \/ \E p \in Procs, io \in HandlerOutcomes : save(p, io) /\ UNCHANGED <<otel, trail, req, userCounter, born>>
    \/ \E p \in Procs : Unlock(p) /\ UNCHANGED <<otel, trail, req, userCounter, born>>
    \/ \E p \in Procs : GetAll(p) /\ UNCHANGED <<otel, trail, req, userCounter, born>>
    \/ \E p \in Procs, id \in FairIds : GetByID(p, id) /\ UNCHANGED <<otel, trail, req, userCounter, born>>
    \/ \E p \in Procs : RUnlock(p) /\ UNCHANGED <<otel, trail, req, userCounter, born>>

\* The three callers with a fair lock and disk writes that end: a goroutine
\* that can take a step again and again takes one.
SpecFair == Init /\ [][NextFair]_vars /\ \A p \in Procs : SF_vars(Step(p))

-----------------------------------------------------------------------------
(* initOtel and the combined shutdown function of the telemetry providers *)

\* the providers in the order initOtel sets them up
Providers == <<"trace", "meter", "logger">>

\* what the shutdown of a provider can return
ErrDeadline == "context deadline exceeded"
ErrCanceled == "context canceled"
ShutdownErr(f) ==
    CASE f = "trace" -> "trace shutdown failed"
      [] f = "meter" -> "meter shutdown failed"
      [] f = "logger" -> "logger shutdown failed"
ShutdownOutcomes(f) == {Nil, ShutdownErr(f), ErrDeadline, ErrCanceled}

\* a loop that keeps the first error it meets
KeepFirst(err, shutdownErr) == IF err # Nil THEN err ELSE shutdownErr

\* the body of the loop: `if shutdownErr != nil { err = shutdownErr }`
Keep(err, shutdownErr) == IF shutdownErr # Nil THEN shutdownErr ELSE err

\* initOtel sets up the next provider: on an error it returns no shutdown
\* function, else it appends the provider's shutdown to shutdownFuncs, and
\* with the third it returns the combined function
initProvider(ok) ==
    /\ otel.phase = "init"
    /\ otel' = IF ~ok THEN [otel EXCEPT !.phase = "failed"]
               ELSE LET fs == Append(otel.funcs, Providers[Len(otel.funcs) + 1])
                    IN  [otel EXCEPT !.funcs = fs,
                                     !.phase = IF Len(fs) = Len(Providers)
                                               THEN "ready" ELSE "init"]

\* main's deferred otelShutdown(ctx): `var err error`
otelShutdown ==
    /\ otel.phase = "ready"
    /\ otel' = [otel EXCEPT !.phase = "shutdown", !.err = Nil, !.outs = << >>]

\* one turn of `for _, fn := range shutdownFuncs`
ShutdownTurn(out) ==
    /\ otel.phase = "shutdown"
    /\ Len(otel.outs) < Len(otel.funcs)
    /\ LET fn == otel.funcs[Len(otel.outs) + 1]
       IN  /\ out \in ShutdownOutcomes(fn)
           /\ otel' = [otel EXCEPT !.outs = Append(@, [fn |-> fn, err |-> out]),
                                    !.err = Keep(@, out)]

\* `return err` after the loop
ShutdownReturn ==
    /\ otel.phase = "shutdown"
    /\ Len(otel.outs) = Len(otel.funcs)
    /\ otel' = [otel EXCEPT !.phase = "done", !.result = otel.err]

NextOtel ==
    \/ \E ok \in BOOLEAN : initProvider(ok) /\ UNCHANGED <<storeVars, trail, req, userCounter, born>>
    \/ otelShutdown /\ UNCHANGED <<storeVars, trail, req, userCounter, born>>
    \/ \E out \in {Nil, ErrDeadline, ErrCanceled}
                        \cup {ShutdownErr(Providers[i]) : i \in DOMAIN Providers} :
            ShutdownTurn(out) /\ UNCHANGED <<storeVars, trail, req, userCounter, born>>
    \/ ShutdownReturn /\ UNCHANGED <<storeVars, trail, req, userCounter, born>>

SpecOtel == Init /\ [][NextOtel]_vars

UniqueEmails(us) == \A i, j \in DOMAIN us : us[i].Email = us[j].Email => i = j

\* the records the snapshot file holds
FileRecords(f) == {Unmarshal(f.users[i]) : i \in 1..Len(f.users)}

\* goroutine p is returning err from one of ops (its lock still held)
Returns(p, ops, err) ==
    pc[p] \in {"unlock", "runlock"} /\ call[p].op \in ops /\ ret[p].err = err

\* C1: no step of Create, Update, Delete or a read turns an index with unique
\* emails into one where two live records share an email (the load of a
\* snapshot at construction is what the store starts from)
EmailsStayUnique ==
    [][(UniqueEmails(users) /\ ~(\E env \in Envs : NewJSONStore(env)))
          => UniqueEmails(users')]_vars

C1Witness ==
    \E p \in Procs :
        /\ Returns(p, {"Create", "Update"}, Nil)
        /\ Cardinality(DOMAIN users) = 2
        /\ UniqueEmails(users)

\* C2: a Create whose snapshot write failed returns with the index as it was
\* before the call
CreateRollsBack == \A p \in Procs : Returns(p, {"Create"}, ErrIO) => users = snap

\* C3: an Update whose snapshot write failed returns with the record as it was
\* before the call
UpdateRollsBack ==
    \A p \in Procs :
        Returns(p, {"Update"}, ErrIO) =>
            /\ call[p].id \in DOMAIN users
            /\ users[call[p].id] = snap[call[p].id]

\* C4: a Delete whose snapshot write failed returns with the record still live
DeleteRollsBack ==
    \A p \in Procs :
        Returns(p, {"Delete"}, ErrIO) =>
            /\ call[p].id \in DOMAIN users
            /\ users[call[p].id] = snap[call[p].id]

\* C5: when Create, Update or Delete returns success the snapshot file holds
\* exactly the records of the index, once each
SnapshotEqualsIndexAfterSuccess ==
    \A p \in Procs :
        Returns(p, WriteOps, Nil) =>
            /\ file.kind = "array"
            /\ FileRecords(file) = Values(users)
            /\ Len(file.users) = Cardinality(DOMAIN users)

C5Witness ==
    \E p \in Procs :
        /\ Returns(p, WriteOps, Nil)
        /\ Cardinality(DOMAIN users) = 2
        /\ snap # users

\* C6 as stated: right after a successful load the records of the index are
\* the records of the snapshot file
LoadedIndexEqualsFile ==
    (state = "Ready" /\ ncalls = 0 /\ file.kind = "array")
        => Values(users) = FileRecords(file)

\* the last entry of js with the id, as a user
LastWithId(js, id) ==
    Unmarshal(js[CHOOSE i \in 1..Len(js) :
                    js[i].id = id /\ \A j \in (i + 1)..Len(js) : js[j].id # id])

\* C6 amended: a successful load leaves in the index, for every id that occurs
\* in the snapshot file, the last entry with that id, and nothing else
LoadKeepsLastPerId ==
    [][((\E env \in Envs : NewJSONStore(env)) /\ state' = "Ready" /\ file.kind = "array")
          => /\ DOMAIN users' = {file.users[i].id : i \in 1..Len(file.users)}
             /\ \A id \in DOMAIN users' : users'[id] = LastWithId(file.users, id)]_vars

C6Witness ==
    /\ state = "Ready" /\ ncalls = 0 /\ file.kind = "array"
    /\ Len(file.users) = 2
    /\ file.users[1].id = file.users[2].id
    /\ file.users[1] # file.users[2]

\* C7: a fresh instance built on the file of a Ready instance whose calls
\* have all returned lists the same set of records
FreshInstanceListsSame ==
    [][(state = "Ready" /\ NewJSONStore("ok"))
          => (state' = "Ready" /\ Values(users') = Values(users))]_vars

\* C8: GetByID returns the record of the last successful Create of the id
\* until a successful Update or Delete of it, and ErrUserNotFound after a
\* successful Delete until a Create of the id
IdRoundTrip ==
    \A p \in Procs :
        (pc[p] = "runlock" /\ call[p].op = "GetByID" /\ call[p].id \in DOMAIN trail) =>
            LET t == trail[call[p].id]
            IN  /\ (t.op = "Create" /\ t.err = Nil)
                        => ret[p] = [err |-> Nil, val |-> t.user]
                /\ t.op = "Delete" => ret[p].err = ErrUserNotFound

\* C9 as stated: a successful Update leaves CreatedAt as it was stored
CreatedAtSurvivesUpdate ==
    \A p \in Procs :
        Returns(p, {"Update"}, Nil) =>
            users[call[p].id].CreatedAt = snap[call[p].id].CreatedAt

\* C9 amended: after a successful Update the stored CreatedAt is the one the
\* call carried, so it is the earlier one exactly when the call carried that
UpdateStoresCarriedCreatedAt ==
    \A p \in Procs :
        Returns(p, {"Update"}, Nil) =>
            LET id == call[p].id
                carried == call[p].user[1].CreatedAt
            IN  /\ users[id].CreatedAt = carried
                /\ users[id].CreatedAt = snap[id].CreatedAt <=> carried = snap[id].CreatedAt

C9Witness ==
    \E p \in Procs :
        /\ Returns(p, {"Update"}, Nil)
        /\ call[p].user[1].CreatedAt # snap[call[p].id].CreatedAt

\* C10: among Creates with fresh ids, at most one per email gets past the
\* email scan (returns success or the write error), and a Create that finds
\* another such Create of its email returns ErrUserExists
OneCreatePerEmail ==
    /\ \A i, j \in DOMAIN trail :
            trail[i].user[1].Email = trail[j].user[1].Email => i = j
    /\ \A p \in Procs :
            (/\ pc[p] = "unlock" /\ call[p].op = "Create"
             /\ \E i \in DOMAIN trail \ {call[p].id} :
                    trail[i].user[1].Email = call[p].user[1].Email)
                => ret[p].err = ErrUserExists

C10Witness ==
    \E p \in Procs :
        /\ Returns(p, {"Create"}, ErrUserExists)
        /\ \E i \in DOMAIN trail \ {call[p].id} :
                /\ trail[i].err = Nil
                /\ trail[i].user[1].Email = call[p].user[1].Email
        /\ \E q \in Procs \ {p} : pc[q] = "lock"

\* ---------------------------------------------------------------------------
\* Locking

\* goroutine p is between the first index access of a mutating operation and
\* its unlock: the snapshot write is still to come, or has just ended
WriterInside(p) == pc[p] \in {"save", "unlock"}

ReaderInside(p) == pc[p] = "runlock"

\* what a Get or List that is inside its critical section took from the index
SeesIndex(p) ==
    IF call[p].op = "GetAll"
    THEN ret[p].err = Nil /\ ret[p].val \in RangeOrders(users)
    ELSE ret[p] = IF call[p].id \in DOMAIN users
                  THEN [err |-> Nil, val |-> <<users[call[p].id]>>]
                  ELSE [err |-> ErrUserNotFound, val |-> << >>]

\* C11: while a Create, Update or Delete is between its first access to the
\* index and the end of its snapshot write, no other operation, reader or
\* writer, is inside its critical section; so a Get or List that is inside
\* holds exactly what the index holds and no snapshot write is under way.
WriterExclusion ==
    /\ \A p \in Procs : WriterInside(p) =>
            \A q \in Procs \ {p} : ~WriterInside(q) /\ ~ReaderInside(q)
    /\ \A q \in Procs : ReaderInside(q) => SeesIndex(q)

\* a writer is at its snapshot write while a reader and another writer wait
C11Witness ==
    \E p, q, r \in Procs :
        /\ pc[p] = "save"
        /\ pc[q] = "lock" /\ call[q].op \in ReadOps
        /\ pc[r] = "lock" /\ call[r].op \in WriteOps

\* goroutine p called Get or List and its RLock has not returned
ReaderCanEnter(p) == ENABLED (GetAll(p) \/ \E id \in Ids : GetByID(p, id))
ReaderWaits(p) == pc[p] = "lock" /\ call[p].op \in ReadOps /\ ~ReaderCanEnter(p)

\* C12 as written: a List or Get waits only while a writer holds the lock.
ReaderWaitsOnlyForHolder ==
    \A p \in Procs : ReaderWaits(p) => \E q \in Procs : WriterInside(q)

\* C12: a List or Get waits only while a writer holds the lock or has called
\* Lock and waits for the readers inside to leave; readers that are inside do
\* not make another reader wait.
ReaderWaitsOnlyForWriter ==
    \A p \in Procs : ReaderWaits(p) =>
        \E q \in Procs : WriterInside(q) \/ pc[q] = "drain"

\* two readers are inside at once and a third arrives without waiting
C12Witness ==
    \E p, q, r \in Procs :
        /\ p # q /\ ReaderInside(p) /\ ReaderInside(q)
        /\ pc[r] = "lock" /\ call[r].op \in ReadOps /\ ReaderCanEnter(r)

\* ---------------------------------------------------------------------------
\* Rejections

\* some record other than the one with user's id holds user's email
HeldByOther(us, user) == \E k \in DOMAIN us : k # user.ID /\ us[k].Email = user.Email

\* user's id is live and user's email is the email that record has now
OwnEmail(us, user) == user.ID \in DOMAIN us /\ us[user.ID].Email = user.Email

\* a step of goroutine p that rejects the call with err: the result is set, the
\* snapshot write is skipped, index and file stay as they are
Rejects(p, err) ==
    /\ ret'[p].err = err
    /\ pc'[p] \in {"unlock", "runlock"}
    /\ users' = users
    /\ file' = file

\* the return of a call leaves index and file alone
ReturnKeeps ==
    \A p \in Procs : (Unlock(p) \/ RUnlock(p)) => users' = users /\ file' = file

UpdateConflictRejected ==
    [][/\ \A p \in Procs, user \in InputUsers :
            (Update(p, user) /\ Exists(users, user.ID) /\ HeldByOther(users, user))
                => Rejects(p, ErrUserExists)
       /\ ReturnKeeps]_vars

C14Witness ==
    \E p \in Procs :
        /\ Returns(p, {"Update"}, ErrUserExists)
        /\ users = snap
        /\ call[p].id \in DOMAIN users
        /\ users[call[p].id].Email # call[p].user[1].Email

\* C15: Create fails with ErrUserExists exactly when some live record has the
\* same email, compared letter for letter; and then index and file are
\* unchanged.
CreateRejectedIffEmailLive ==
    [][\A p \in Procs, user \in InputUsers :
          Create(p, user) =>
              IF \E k \in DOMAIN users : users[k].Email = user.Email
              THEN Rejects(p, ErrUserExists)
              ELSE pc'[p] = "save" /\ ret'[p].err # ErrUserExists]_vars

\* the store started without a file, and a later Create is past the scan while
\* a record with the other spelling of its email is live
C15Witness ==
    \E p \in Procs :
        /\ pc[p] = "save" /\ call[p].op = "Create"
        /\ \E k \in DOMAIN snap : Fold(snap[k].Email) = Fold(call[p].user[1].Email)
        /\ ncalls > 1 /\ file = Absent

\* C16: GetByID, Update and Delete of an id that no live record has fail with
\* ErrUserNotFound; index and snapshot file are unchanged and no snapshot
\* write is attempted.
MissingIdRejected ==
    [][/\ \A p \in Procs, id \in Ids :
            ((GetByID(p, id) \/ Delete(p, id)) /\ id \notin DOMAIN users)
                => Rejects(p, ErrUserNotFound)
       /\ \A p \in Procs, user \in InputUsers :
            (Update(p, user) /\ user.ID \notin DOMAIN users)
                => Rejects(p, ErrUserNotFound)
       /\ ReturnKeeps]_vars

C16Witness ==
    \E p, q \in Procs :
        /\ Returns(p, {"Update"}, ErrUserNotFound)
        /\ pc[q] = "lock" /\ call[q].op = "Delete"
        /\ users # EmptyMap /\ call[p].id \notin DOMAIN users

\* ---------------------------------------------------------------------------
\* Construction

\* C17: construction on a path that does not exist, or that holds zero bytes,
\* succeeds (the directory can be made and the file system answers the read)
\* and gives a Ready store with an empty index, and the file is left as it
\* was; GetAll on an empty index returns an empty sequence and no error.
EmptyStartIsReady ==
    [][/\ (NewJSONStore("ok") /\ file.kind \in {"absent", "zero"})
            => state' = "Ready" /\ users' = EmptyMap /\ file' = file
       /\ \A p \in Procs :
            (GetAll(p) /\ users = EmptyMap) => ret'[p] = [err |-> Nil, val |-> << >>]]_vars

\* the first call on a store made from zero bytes is a GetAll, and it is back
C17Witness ==
    /\ state = "Ready" /\ file.kind = "zero" /\ ncalls = 1
    /\ \E p \in Procs : Returns(p, {"GetAll"}, Nil) /\ ret[p].val = << >>

\* C18: construction on a non-empty snapshot that does not parse fails and
\* gives no store: the state is Failed and never Ready after it, and nothing
\* happens after it: no operation is called (main exits before it registers
\* a route).
MalformedSnapshotIsFatal ==
    [][/\ ((\E env \in Envs : NewJSONStore(env)) /\ file.kind = "malformed")
            => state' = "Failed" /\ users' = EmptyMap /\ file' = file
       /\ state # "Failed"]_vars

C18Witness == state = "Failed" /\ file.kind = "malformed" /\ Idle /\ ncalls = 0

\* ---------------------------------------------------------------------------
\* Order of write and result

\* C20: when Create, Update or Delete returns success, the snapshot write of
\* that call has already completed successfully: the success result is set
\* only by the step that wrote the whole index to the file, and at the return
\* the file still holds that write.
PersistBeforeSuccess ==
    [][\A p \in Procs :
          /\ (pc[p] # "unlock" /\ pc'[p] = "unlock" /\ ret'[p].err = Nil)
                => /\ pc[p] = "save" /\ call[p].op \in WriteOps
                   /\ file' \in SaveContents(users)
                   /\ users' = users
          /\ (Unlock(p) /\ ret[p].err = Nil)
                => file \in SaveContents(users) /\ file' = file]_vars

C20Witness ==
    \E p \in Procs :
        /\ Returns(p, {"Delete"}, Nil)
        /\ file \in SaveContents(users)
        /\ snap # users

\* ---------------------------------------------------------------------------
\* HTTP answers

\* the handler of goroutine p has answered
Answered(p) == req[p].status # ""

\* C19: for every handler and every interleaving, a store error ErrUserNotFound
\* is answered 404, ErrUserExists 409 and a persistence error 500; so a PUT
\* whose record a DELETE removes between the handler's GetByID and its Update
\* is answered 404.
HTTPErrorMapping ==
    \A p \in Procs :
        Answered(p) =>
            /\ req[p].err = ErrUserNotFound => req[p].status = StatusNotFound
            /\ req[p].err = ErrUserExists => req[p].status = StatusConflict
            /\ req[p].err = ErrIO => req[p].status = StatusInternalServerError

\* ---------------------------------------------------------------------------
\* List, and the single write

\* the records of sequence s, each counted once
Elems(s) == {s[i] : i \in 1..Len(s)}

\* C21: GetAll never returns an error; it returns exactly the records that
\* are live in the index at the instant it holds the read lock, each live
\* record once and no other record, and an empty sequence when none is live.
ListReturnsLiveRecords ==
    [][\A p \in Procs :
          GetAll(p) =>
              /\ ret'[p].err = Nil
              /\ Elems(ret'[p].val) = Values(users)
              /\ Len(ret'[p].val) = Cardinality(DOMAIN users)
              /\ users = EmptyMap => ret'[p].val = << >>]_vars

\* a List that is not the first call returns the one record that is live
C21Witness ==
    \E p \in Procs :
        /\ Returns(p, {"GetAll"}, Nil)
        /\ Len(ret[p].val) = 1
        /\ file.kind = "array" /\ Len(file.users) = 1
        /\ ncalls > 1

\* C22: each Create, Update or Delete attempts the snapshot write at most
\* once: a goroutine comes to the write only from the lock, leaves it with
\* the one call of os.WriteFile for the unlock, and from there only returns;
\* a failed write is the result that same invocation returns.
NoRetry ==
    [][\A p \in Procs :
          /\ (pc'[p] = "save" /\ pc[p] # "save") => pc[p] \in {"lock", "drain"}
          /\ \A io \in WriteOutcomes :
                save(p, io) =>
                    /\ pc'[p] = "unlock"
                    /\ ret'[p].err = IF io = "ok" THEN Nil ELSE ErrIO
          /\ (pc[p] = "unlock" /\ pc'[p] # "unlock") =>
                pc'[p] = "idle" /\ file' = file
          /\ (pc[p] = "save" /\ pc'[p] = "save") => file' = file]_vars

\* a write has failed and its invocation is about to return the error
C22Witness ==
    \E p \in Procs :
        /\ Returns(p, WriteOps, ErrIO)
        /\ file \notin SaveContents(users)

\* ---------------------------------------------------------------------------
\* What a call leaves alone

\* every record of index a is in index b as it was
Kept(a, b) == \A k \in DOMAIN a : k \in DOMAIN b /\ b[k] = a[k]

\* C24: a successful Create adds exactly one live record and leaves every
\* record that was live as it was, also when its id is the id of a live
\* record with another email.
CreateOnlyInserts ==
    \A p \in Procs :
        Returns(p, {"Create"}, Nil) =>
            /\ Cardinality(DOMAIN users) = Cardinality(DOMAIN snap) + 1
            /\ Kept(snap, users)

\* C27: a successful Delete removes the record of its id and nothing else; a
\* successful Update leaves the set of live ids as it was and changes no
\* record but the one of its id.
MutationsTouchOnlyTarget ==
    \A p \in Procs :
        /\ Returns(p, {"Delete"}, Nil) =>
              /\ DOMAIN users = DOMAIN snap \ {call[p].id}
              /\ call[p].id \in DOMAIN snap
              /\ Kept(users, snap)
        /\ Returns(p, {"Update"}, Nil) =>
              /\ DOMAIN users = DOMAIN snap
              /\ \A k \in DOMAIN snap \ {call[p].id} : users[k] = snap[k]

\* a Delete went through on an index of two records with one email
C27Witness ==
    \E p \in Procs :
        /\ Returns(p, {"Delete"}, Nil)
        /\ Cardinality(DOMAIN snap) = 2
        /\ \A i, j \in DOMAIN snap : snap[i].Email = snap[j].Email

\* C28: GetAll and GetByID, found or not found, leave index and snapshot file
\* as they are and never come to the snapshot write, and so does their return.
ReadsArePure ==
    [][\A p \in Procs :
          (GetAll(p) \/ (\E id \in Ids : GetByID(p, id)) \/ RUnlock(p)) =>
              /\ users' = users
              /\ file' = file
              /\ pc'[p] \in {"runlock", "idle"}]_vars

\* a GetByID has found nothing while the file does not hold what the index holds
C28Witness ==
    \E p \in Procs :
        /\ Returns(p, {"GetByID"}, ErrUserNotFound)
        /\ file \notin SaveContents(users)
        /\ users # EmptyMap

\* C30: an Update that is accepted stores the name and the email of its own
\* record, both, whatever another Update of the same id stored before it or
\* is waiting to store; until it returns the record stays that one.
UpdateReplacesWholesale ==
    \A p \in Procs :
        (pc[p] \in {"save", "unlock"} /\ call[p].op = "Update" /\ ret[p].err \in {Nil, ErrIO}) =>
            /\ users[call[p].id].Name = call[p].user[1].Name
            /\ users[call[p].id].Email = call[p].user[1].Email

\* a second Update has gone through that changes the name and the email it
\* found, while another call waits for the lock
C30Witness ==
    \E p, q \in Procs :
        /\ Returns(p, {"Update"}, Nil)
        /\ snap[call[p].id].Name # call[p].user[1].Name
        /\ snap[call[p].id].Email # call[p].user[1].Email
        /\ pc[q] = "lock" /\ call[q].op = "Update"

\* C25: in every state of a Ready store in which no writer holds the lock, the
\* records of the snapshot file (none when the file is absent or empty) are
\* the records of the index, also after a snapshot write that failed.
QuiescentConsistency ==
    (state = "Ready" /\ mu.writer = {}) =>
        /\ file.kind # "malformed"
        /\ FileRecords(file) = Values(users)

\* ---------------------------------------------------------------------------
\* The handlers' counter and the creation time

\* no request is being served
Quiet == \A p \in Procs : req[p].route = "none" /\ pc[p] = "idle"

\* C23: after any sequence of completed HTTP requests, those answered 409,
\* 404 or 500 after a failed snapshot write included, the value of the
\* user_api_users_total counter is the number of live records in the store.
CounterEqualsLive ==
    (state = "Ready" /\ Quiet) => userCounter = Cardinality(DOMAIN users)

\* C29: for every interleaving of POST, PUT and DELETE requests, each POST
\* with a new id, the CreatedAt of a live record is the CreatedAt the POST
\* that made the record gave it, although the PUT handler reads the record
\* and writes its replacement in two lock acquisitions.
CreatedAtIsThePOSTs ==
    \A id \in DOMAIN users : id \in DOMAIN born /\ users[id].CreatedAt = born[id]

\* a PUT has replaced a record at another clock reading than its CreatedAt,
\* in a run in which a POST made a record
C29Witness ==
    \E p \in Procs :
        /\ Returns(p, {"Update"}, Nil) /\ req[p].route = "Update"
        /\ users[call[p].id].UpdatedAt # users[call[p].id].CreatedAt
        /\ snap[call[p].id].UpdatedAt = snap[call[p].id].CreatedAt
        /\ Cardinality(DOMAIN born) = 2

\* ---------------------------------------------------------------------------
\* Progress

\* some goroutine inside a store call can take a step
CanStep == \E p \in Procs : ENABLED Step(p)

LockFree == mu.writer = {} /\ mu.waiting = {} /\ mu.readers = {}

\* C26: every store operation releases the lock on every return path, so no
\* state with a call under way is a deadlock, and with a fair lock and disk
\* writes that end every operation that was invoked returns.
LockReleaseAndProgress ==
    /\ [](Idle => LockFree)
    /\ []((\E p \in Procs : pc[p] # "idle") => CanStep)
    /\ \A p \in Procs : (pc[p] # "idle") ~> (pc[p] = "idle")

\* a writer is about to return a persistence error while two callers wait
C26Witness ==
    \E p, q, r \in Procs :
        /\ Returns(p, WriteOps, ErrIO)
        /\ q # r /\ pc[q] = "lock" /\ pc[r] = "lock"

\* ---------------------------------------------------------------------------
\* Order of the tests in Update

\* C31: Update looks for the id before it scans the emails: with an id that
\* is not live it returns ErrUserNotFound also when the email is the email of
\* a live record, and it returns ErrUserExists only when the id is live.
UpdateChecksExistenceFirst ==
    [][\A p \in Procs, user \in InputUsers :
          Update(p, user) =>
              /\ (user.ID \notin DOMAIN users /\ EmailExists(users, user))
                    => Rejects(p, ErrUserNotFound)
              /\ ret'[p].err = ErrUserExists => user.ID \in DOMAIN users]_vars

\* an Update of an id that is not live is turned away with ErrUserNotFound
\* while a live record has the email it brought
C31Witness ==
    \E p \in Procs :
        /\ Returns(p, {"Update"}, ErrUserNotFound)
        /\ call[p].id \notin DOMAIN users
        /\ \E k \in DOMAIN users : users[k].Email = call[p].user[1].Email

\* ---------------------------------------------------------------------------
\* Telemetry shutdown

\* the error of the last entry of outs that has one, Nil when none has
RECURSIVE LastError(_)
LastError(outs) ==
    IF outs = << >> THEN Nil
    ELSE IF outs[Len(outs)].err # Nil THEN outs[Len(outs)].err
    ELSE LastError(SubSeq(outs, 1, Len(outs) - 1))

\* C32: the combined shutdown function calls the shutdown of all three
\* providers, trace, then meter, then logger, also after one of them returned
\* an error, and returns the error of the last provider that failed, or no
\* error when none failed.
ShutdownCallsAllKeepsLast ==
    /\ otel.phase \in {"shutdown", "done"} =>
          \A i \in DOMAIN otel.outs : otel.outs[i].fn = Providers[i]
    /\ otel.phase = "done" =>
          /\ Len(otel.outs) = Len(Providers)
          /\ otel.result = LastError(otel.outs)

\* trace and meter failed with different errors, logger did not
C32Witness ==
    /\ otel.phase = "done"
    /\ otel.outs[1].err = ShutdownErr("trace")
    /\ otel.outs[2].err = ErrDeadline
    /\ otel.outs[3].err = Nil
    /\ otel.result = ErrDeadline


====
